---- MODULE Spec2Model ----
(***************************************************************************)
(* PyDataSource: the event/step/run cursor (RunEvents, SmdEvents, Steps,   *)
(* StepEvents, Events), the configuration resolver (ConfigData.__init__)   *)
(* and the scan aggregator (ScanData.__init__) of src/PyDataSource.py.     *)
(*                                                                         *)
(* Python objects are records; a method is an operator from the object     *)
(* before the call to the object after it, with field exc naming the       *)
(* exception that left the method ("none" when it returned).               *)
(***************************************************************************)
EXTENDS Integers, Sequences, FiniteSets, TLC

VARIABLES
    snap,      \* resolver: the configStore snapshot handed to ConfigData
    graph,     \* resolver: the ConfigData object built from snap ("unbuilt" before)
    run,       \* cursor: the recorded run (access mode, step sizes, step configs)
    ds,        \* cursor: the DataSource object and the psana stream it reads
    op,        \* cursor: the last operation the caller made
    arg,       \* cursor: its jump target (NoArg for the others)
    ret,       \* cursor: what it gave the caller (an event or an exception name)
    anchor,    \* cursor: position before the first jump of the latest jump sequence
    nAdv,      \* cursor: advance() calls since load with no other call between (-1: other calls)
    delivered, \* cursor: events returned by advance() since the last load
    control,   \* scan: the ControlData values of the steps, in step order
    scan       \* scan: the attributes ScanData.__init__ sets from them ("unbuilt" before)

vars == <<snap, graph, run, ds, op, arg, ret, anchor, nAdv, delivered, control, scan>>

----------------------------------------------------------------------------
(* Bounds of the model *)

MaxPartSrcs == 2   \* sources declared by the partition record
MaxAlias == 1      \* alias records in the snapshot
MaxCodes == 2      \* event-code records in the snapshot
MaxSteps == 2      \* steps (calib cycles) of a run
MaxEvents == 3     \* events of a run
MaxOverrun == 1    \* advance() calls made after the event index has passed the last event

----------------------------------------------------------------------------
(* Sources, strings and the helpers of ConfigData.__init__                 *)
(* A source string "Kind(tok tok ...)" is the record [kind, name]; name is *)
(* the sequence of its tokens, punctuation included.                       *)

None == "None"

Src(kind, name) == [kind |-> kind, name |-> name]

SrcA == Src("DetInfo", <<"a">>)
SrcB == Src("DetInfo", <<"b", "-", "c">>)
SrcX == Src("DetInfo", <<"x">>)
SrcN == Src("DetInfo", <<"NoDetector", ".", "0", ":", "NoDevice", ".", "0">>)
SrcF == Src("BldInfo", <<"FEE", "-", "SPEC0">>)
SrcP == Src("ProcInfo", <<"p">>)
EvrSrc == Src("DetInfo", <<"NoDetector", ".", "0", ":", "Evr", ".", "0">>)

\* re.sub('-|:|\.| ','_', alias)
Sanitize(s) ==
    [i \in 1..Len(s) |-> IF s[i] \in {"-", ":", ".", " "} THEN "_" ELSE s[i]]

\* 'marker' in srcstr / srcstr.find(marker) != -1
Contains(src, marker) == \E i \in 1..Len(src.name) : src.name[i] = marker

\* ConfigData._alias_defaults (the two keys without a closing parenthesis match no source)
alias_defaults == (SrcF :> <<"FEE_Spec">>)

\* srcstr.split('Info(')[1].rstrip(')'), srcstr itself when the split fails
StripInfo(src) ==
    IF src.kind \in {"DetInfo", "BldInfo", "ProcInfo"} THEN src.name
    ELSE <<src.kind>> \o src.name

\* f with key k bound to v (dict item assignment)
Put(f, k, v) == (k :> v) @@ f

EmptyDict == [k \in {} |-> None]

NewGroup == [srcs |-> <<>>, eventCodes |-> <<>>]

\* a _sources item; keys the code has not set hold None (<<>> for the numeric ones)
NewSource == [group |-> <<>>, alias |-> <<>>, eventCode |-> <<>>, map_key |-> None,
              evr_width |-> <<>>, evr_delay |-> <<>>, evr_polarity |-> <<>>]

\* the ConfigData object as __init__ starts filling it; "undef" marks an
\* attribute that does not exist yet
NewConfigData ==
    [exc |-> "none", returned |-> FALSE,
     _sources |-> EmptyDict, _partition |-> EmptyDict, pkeys |-> <<>>,
     _srcAlias |-> <<>>, _aliases |-> "undef", _readoutGroup |-> "undef",
     _ipAddrPartition |-> "undef", _output_maps |-> EmptyDict,
     _eventcodes |-> EmptyDict, _config_srcs |-> EmptyDict]

Raise(c, e) == [c EXCEPT !.exc = e]

\* keys of self._config: every source with a configuration record
ConfigKeys(s) ==
    s.config \o (IF s.evr.present THEN <<EvrSrc>> ELSE <<>>)


----------------------------------------------------------------------------
(* ConfigData.__init__: the configuration resolver                         *)
(* Optional integers (group, eventCode, timing) are <<>> for None, <<n>>.  *)

\* self._srcAlias[alias] = (src, ip): a later item of the same key replaces the earlier
PutAlias(sa, alias, src, ip) ==
    IF \E i \in 1..Len(sa) : sa[i].alias = alias
    THEN [i \in 1..Len(sa) |->
             IF sa[i].alias = alias THEN [alias |-> alias, src |-> src, ip |-> ip] ELSE sa[i]]
    ELSE Append(sa, [alias |-> alias, src |-> src, ip |-> ip])

\* one pass of the loop over self._config.items() when there is no Partition module
DegradedItem(c, src) ==
    LET c1 == IF src.kind \in {"BldInfo", "DetInfo"}
              THEN [c EXCEPT
                      !._partition = Put(@, src, [group |-> <<0>>, alias |-> <<>>]),
                      !.pkeys = IF src \in DOMAIN c._partition THEN @ ELSE Append(@, src),
                      !._srcAlias = PutAlias(@, Sanitize(src.name), src, "ip0")]
              ELSE c
    IN  \* the code sets _ipAddrpartition (lower-case p), never _ipAddrPartition
        [c1 EXCEPT !._readoutGroup = (0 :> NewGroup)]

RECURSIVE DegradedLoop(_, _, _)
DegradedLoop(c, keys, i) ==
    IF i > Len(keys) THEN c ELSE DegradedLoop(DegradedItem(c, keys[i]), keys, i + 1)

\* the single Partition record: _ipAddrPartition, _readoutGroup, _partition, _srcAlias
SeedPartition(c, s) ==
    LET p == s.parts[1]
        srcs == p.sources
    IN  [c EXCEPT
           !._ipAddrPartition = p.ip,
           !._readoutGroup = [g \in {srcs[i].group : i \in 1..Len(srcs)} |-> NewGroup],
           !._partition = [x \in {srcs[i].src : i \in 1..Len(srcs)} |->
                             [group |-> <<srcs[CHOOSE i \in 1..Len(srcs) :
                                               /\ srcs[i].src = x
                                               /\ \A j \in (i+1)..Len(srcs) : srcs[j].src # x].group>>,
                              alias |-> <<>>]],
           !.pkeys = [i \in 1..Len(srcs) |-> srcs[i].src],
           !._srcAlias = s.aliases]

\* "Setup Partition": no record, more than one record, exactly one
SetupPartition(c, s) ==
    IF Len(s.parts) = 0
    THEN DegradedLoop([c EXCEPT !._partition = EmptyDict, !._srcAlias = <<>>],
                      ConfigKeys(s), 1)
    ELSE IF Cardinality({s.parts[i].type : i \in 1..Len(s.parts)}) # 1
    THEN [c EXCEPT !.returned = TRUE]
    ELSE IF Len(s.parts) # 1
    THEN [c EXCEPT !.returned = TRUE]
    ELSE SeedPartition(c, s)

\* the alias pass that admits every source outside the partition, whatever its address
AliasItem_admit(c, monshm, a) ==
    LET alias == Sanitize(a.alias)
        src == a.src
    IN  IF src \in DOMAIN c._partition
        THEN LET g == c._partition[src].group
                 c1 == [c EXCEPT
                          !._partition[src].alias = alias,
                          !._aliases = IF ~Contains(src, "NoDetector")
                                       THEN Put(@, alias, src) ELSE @]
             IN  IF g # <<>> /\ g # <<0>>
                 THEN [c1 EXCEPT !._readoutGroup[g[1]].srcs = Append(@, src)]
                 ELSE c1
        ELSE IF c._ipAddrPartition = "undef"
        THEN Raise(c, "AttributeError")
        ELSE LET g == IF monshm THEN -2 ELSE -1
                 rg == IF g \in DOMAIN c._readoutGroup
                       THEN c._readoutGroup ELSE Put(c._readoutGroup, g, NewGroup)
             IN  [c EXCEPT
                    !._partition = Put(@, src, [group |-> <<g>>, alias |-> alias]),
                    !.pkeys = Append(@, src),
                    !._aliases = Put(@, alias, src),
                    !._sources = Put(@, src, [NewSource EXCEPT !.group = <<g>>,
                                                                !.alias = alias]),
                    !._readoutGroup = [rg EXCEPT ![g].srcs = Append(@, src)]]

\* one pass of "for alias, item in self._srcAlias.items()"
AliasItem(c, monshm, a) ==
    LET alias == Sanitize(a.alias)
        src == a.src
    IN  IF src \in DOMAIN c._partition
        THEN LET g == c._partition[src].group
                 c1 == [c EXCEPT
                          !._partition[src].alias = alias,
                          !._aliases = IF ~Contains(src, "NoDetector")
                                       THEN Put(@, alias, src) ELSE @]
             IN  IF g # <<>> /\ g # <<0>>
                 THEN [c1 EXCEPT !._readoutGroup[g[1]].srcs = Append(@, src)]
                 ELSE c1
        ELSE IF c._ipAddrPartition = "undef"
        THEN Raise(c, "AttributeError")
        ELSE IF a.ip # c._ipAddrPartition \/ monshm
        THEN LET g == IF monshm THEN -2 ELSE -1
                 rg == IF g \in DOMAIN c._readoutGroup
                       THEN c._readoutGroup ELSE Put(c._readoutGroup, g, NewGroup)
             IN  [c EXCEPT
                    !._partition = Put(@, src, [group |-> <<g>>, alias |-> alias]),
                    !.pkeys = Append(@, src),
                    !._aliases = Put(@, alias, src),
                    !._sources = Put(@, src, [NewSource EXCEPT !.group = <<g>>,
                                                                !.alias = alias]),
                    !._readoutGroup = [rg EXCEPT ![g].srcs = Append(@, src)]]
        ELSE c

RECURSIVE AliasLoop(_, _, _)
AliasLoop(c, monshm, i) ==
    IF i > Len(c._srcAlias) \/ c.exc # "none" THEN c
    ELSE AliasLoop(AliasItem(c, monshm, c._srcAlias[i]), monshm, i + 1)

\* the alias a source without alias record gets
DefaultAlias(src) ==
    Sanitize(IF src \in DOMAIN alias_defaults THEN alias_defaults[src] ELSE StripInfo(src))

\* one pass of "for srcstr, item in self._partition.items()"
PartitionItem(c, src) ==
    LET c1 == IF c._partition[src].alias = <<>>
              THEN [c EXCEPT !._partition[src].alias = DefaultAlias(src),
                             !._aliases = Put(@, DefaultAlias(src), src)]
              ELSE c
        item == c1._partition[src]
        old == IF src \in DOMAIN c1._sources THEN c1._sources[src] ELSE NewSource
    IN  IF ~Contains(src, "NoDetector") /\ ~Contains(src, "NoDevice")
        THEN [c1 EXCEPT !._sources = Put(@, src, [old EXCEPT !.group = item.group,
                                                             !.alias = item.alias])]
        ELSE c1

RECURSIVE PartitionLoop(_, _)
PartitionLoop(c, i) ==
    IF i > Len(c.pkeys) THEN c ELSE PartitionLoop(PartitionItem(c, c.pkeys[i]), i + 1)

\* self._config_srcs: alias -> source, for the sources that have a config object
ConfigSrcs(c, s) ==
    LET keys == ConfigKeys(s)
        have == {x \in DOMAIN c._sources : \E i \in 1..Len(keys) : keys[i] = x}
    IN  [c EXCEPT !._config_srcs =
            [al \in {c._sources[x].alias : x \in have} |->
                CHOOSE x \in have : c._sources[x].alias = al]]


\* one event code of an EvrData Config record (lines 1330-1336)
EventCodeItem(c, ec) ==
    LET c1 == [c EXCEPT !._eventcodes = Put(@, ec.code, ec)]
    IN  IF ec.isReadout
        THEN LET g == ec.readoutGroup
                 rg == IF g \in DOMAIN c1._readoutGroup
                       THEN c1._readoutGroup ELSE Put(c1._readoutGroup, g, NewGroup)
             IN  [c1 EXCEPT !._readoutGroup =
                     [rg EXCEPT ![g].eventCodes = Append(@, ec.code)]]
        ELSE c1

RECURSIVE EventCodeLoop(_, _, _)
EventCodeLoop(c, ecs, i) ==
    IF i > Len(ecs) THEN c ELSE EventCodeLoop(EventCodeItem(c, ecs[i]), ecs, i + 1)

\* one output map (lines 1338-1352); width and delay are kept as the integer
\* pulse.width*pulse.prescale, the numerator of the division by 119.e6
OutputMapItem(c, evr, om) ==
    IF om.source = "Pulse"
    THEN IF om.source_id + 1 > Len(evr.pulses)
         THEN Raise(c, "IndexError")
         ELSE LET pulse == evr.pulses[om.source_id + 1]
              IN  [c EXCEPT !._output_maps = Put(@, om.map_key,
                      [evr_width |-> <<pulse.width * pulse.prescale>>,
                       evr_delay |-> <<pulse.delay * pulse.prescale>>,
                       evr_polarity |-> <<pulse.polarity>>])]
    ELSE [c EXCEPT !._output_maps = Put(@, om.map_key,
             [evr_width |-> <<>>, evr_delay |-> <<>>, evr_polarity |-> <<>>])]

RECURSIVE OutputMapLoop(_, _, _)
OutputMapLoop(c, evr, i) ==
    IF i > Len(evr.output_maps) \/ c.exc # "none" THEN c
    ELSE OutputMapLoop(OutputMapItem(c, evr, evr.output_maps[i]), evr, i + 1)

\* one info source of one IO channel (lines 1364-1369)
ChannelInfo(c, map_key, src) ==
    IF src \notin DOMAIN c._sources THEN Raise(c, "KeyError")
    ELSE IF map_key \notin DOMAIN c._output_maps THEN Raise(c, "KeyError")
    ELSE [c EXCEPT !._sources[src] =
             [@ EXCEPT !.map_key = map_key,
                       !.evr_width = c._output_maps[map_key].evr_width,
                       !.evr_delay = c._output_maps[map_key].evr_delay,
                       !.evr_polarity = c._output_maps[map_key].evr_polarity]]

RECURSIVE ChannelInfos(_, _, _)
ChannelInfos(c, ch, i) ==
    IF i > Len(ch.infos) \/ c.exc # "none" THEN c
    ELSE ChannelInfos(ChannelInfo(c, ch.map_key, ch.infos[i]), ch, i + 1)

RECURSIVE ChannelLoop(_, _, _)
ChannelLoop(c, chs, i) ==
    IF i > Len(chs) \/ c.exc # "none" THEN c
    ELSE ChannelLoop(ChannelInfos(c, chs[i], 1), chs, i + 1)

\* the sources of a group take the group's first event code (lines 1371-1375)
PropagateCodes(c) ==
    LET rg == c._readoutGroup
        Coded(x) == {g \in DOMAIN rg :
                        /\ rg[g].eventCodes # <<>>
                        /\ \E i \in 1..Len(rg[g].srcs) : rg[g].srcs[i] = x}
    IN  [c EXCEPT !._sources =
            [x \in DOMAIN c._sources |->
                IF Coded(x) # {}
                THEN [c._sources[x] EXCEPT
                        !.eventCode = <<rg[CHOOSE g \in Coded(x) : TRUE].eventCodes[1]>>]
                ELSE c._sources[x]]]

\* lines 1311-1375: event codes, output maps, IO channels
EvrWiring(c, s) ==
    IF ~s.evr.present THEN Raise(c, "KeyError")       \* self._modules['EvrData']
    ELSE IF ~s.evr.ioc THEN c
    ELSE IF ~s.evr.cfg THEN Raise(c, "KeyError")      \* self._modules['EvrData'][None]
    ELSE LET c1 == EventCodeLoop(c, s.evr.eventcodes, 1)
             c2 == OutputMapLoop(c1, s.evr, 1)
             c3 == ChannelLoop(c2, s.evr.channels, 1)
         IN  IF c3.exc # "none" THEN c3 ELSE PropagateCodes(c3)

\* ConfigData(ds): the object built from the configStore snapshot s
ConfigData_init(s) ==
    LET c1 == SetupPartition(NewConfigData, s)
    IN  IF c1.returned THEN c1
        ELSE LET c2 == AliasLoop([c1 EXCEPT !._aliases = EmptyDict], s.monshmserver, 1)
             IN  IF c2.exc # "none" THEN c2
                 ELSE EvrWiring(ConfigSrcs(PartitionLoop(c2, 1), s), s)


----------------------------------------------------------------------------
(* The configStore snapshots the resolver is checked on *)

\* sequences over S of length at most n, without repeated elements
DistinctSeqs(S, n) ==
    {q \in UNION {[1..k -> S] : k \in 0..n} :
        \A i, j \in 1..Len(q) : i # j => q[i] # q[j]}

PartSrcU == {SrcA, SrcB, SrcN}

\* config.sources of a Partition record: (src, group) pairs of distinct sources
PartSourceSeqs ==
    {q \in UNION {[1..k -> [src : PartSrcU, group : {0, 1}]] : k \in 0..MaxPartSrcs} :
        \A i, j \in 1..Len(q) : i # j => q[i].src # q[j].src}

\* the items of self._srcAlias in the order the dict yields them (keys are distinct)
AliasSeqs ==
    {q \in UNION {[1..k -> [alias : {<<"b", "_", "c">>, <<"x", ":", "y">>},
                            src : {SrcA, SrcN, SrcX},
                            ip : {"ipPart", "ipOther"}]] : k \in 0..MaxAlias} :
        \A i, j \in 1..Len(q) : i # j => q[i].alias # q[j].alias}

EvCode(code, group, isReadout) ==
    [code |-> code, readoutGroup |-> group, isReadout |-> isReadout]

CodeSeqs == DistinctSeqs({EvCode(40, 1, TRUE), EvCode(140, 1, TRUE), EvCode(41, 2, FALSE)},
                         MaxCodes)

Pulse0 == [width |-> 2, delay |-> 3, prescale |-> 5, polarity |-> 1]

NoWiring == [output_maps |-> <<>>, pulses |-> <<>>, channels |-> <<>>]

\* output maps, pulses and IO channels: wired well, to a source outside the
\* partition, to a connector without output map, to a pulse that does not exist
Wirings ==
    { [output_maps |-> <<[map_key |-> "k1", source |-> "Pulse", source_id |-> 0]>>,
       pulses |-> <<Pulse0>>,
       channels |-> <<[map_key |-> "k1", infos |-> <<SrcA>>]>>],
      [output_maps |-> <<[map_key |-> "k1", source |-> "Force_High", source_id |-> 0]>>,
       pulses |-> <<>>,
       channels |-> <<[map_key |-> "k1", infos |-> <<SrcX>>]>>],
      [output_maps |-> <<[map_key |-> "k1", source |-> "Pulse", source_id |-> 0]>>,
       pulses |-> <<Pulse0>>,
       channels |-> <<[map_key |-> "k2", infos |-> <<SrcA>>]>>],
      [output_maps |-> <<[map_key |-> "k1", source |-> "Pulse", source_id |-> 1]>>,
       pulses |-> <<Pulse0>>,
       channels |-> <<>>] }

Evr(present, ioc, cfg, codes, w) ==
    [present |-> present, ioc |-> ioc, cfg |-> cfg, eventcodes |-> codes,
     output_maps |-> w.output_maps, pulses |-> w.pulses, channels |-> w.channels]

\* the EvrData module: absent, an IOConfig record alone, a Config record alone, both
EvrU ==
    {Evr(FALSE, FALSE, FALSE, <<>>, NoWiring), Evr(TRUE, TRUE, FALSE, <<>>, NoWiring)}
    \cup {Evr(TRUE, FALSE, TRUE, cs, NoWiring) : cs \in {q \in CodeSeqs : Len(q) <= 1}}
    \cup {Evr(TRUE, TRUE, TRUE, cs, NoWiring) : cs \in CodeSeqs}
    \cup {Evr(TRUE, TRUE, TRUE, cs, w) : cs \in {q \in CodeSeqs : Len(q) = 0}, w \in Wirings}

Snapshot(parts, config, aliases, monshm, evr) ==
    [parts |-> parts, config |-> config, aliases |-> aliases,
     monshmserver |-> monshm, evr |-> evr]

PartitionRec(type, sources) == [type |-> type, ip |-> "ipPart", sources |-> sources]

\* no Partition record: the sources are the ones that have configuration records
DegradedSnapshots ==
    {Snapshot(<<>>, cf, <<>>, m, e) :
        cf \in DistinctSeqs(PartSrcU \cup {SrcF, SrcP}, MaxPartSrcs),
        m \in BOOLEAN, e \in EvrU}

\* one Partition record; the declared sources have configuration records
PartitionSnapshots ==
    {Snapshot(<<PartitionRec("ConfigV2", ps)>>, [i \in 1..Len(ps) |-> ps[i].src], al, m, e) :
        ps \in PartSourceSeqs, al \in AliasSeqs,
        m \in BOOLEAN, e \in EvrU}

\* two Partition records, of one type or of two
AmbiguousSnapshots ==
    {Snapshot(<<PartitionRec("ConfigV2", ps), PartitionRec(ty, ps)>>, <<>>, <<>>, FALSE,
              Evr(TRUE, TRUE, TRUE, <<>>, NoWiring)) :
        ps \in {q \in PartSourceSeqs : Len(q) = 1}, ty \in {"ConfigV1", "ConfigV2"}}

Snapshots ==
    DegradedSnapshots
    \cup {s \in PartitionSnapshots : s.aliases = <<>> => ~s.monshmserver}
    \cup AmbiguousSnapshots

Unbuilt == [NewConfigData EXCEPT !.exc = "unbuilt"]


----------------------------------------------------------------------------
(* The recorded run and the psana objects the cursor reads                 *)
(* run.sizes[k] is the number of events of step k (1-based here, step      *)
(* index k-1 in the code); run.cfg[k] names the configStore snapshot that  *)
(* is current during step k. An event is named by its index in the run's   *)
(* time list (psana Run.times()); -1 stands for "no event" (None).         *)

RECURSIVE SumTo(_, _)
SumTo(sizes, k) == IF k = 0 THEN 0 ELSE sizes[k] + SumTo(sizes, k - 1)

\* len(run.times()): the events of the run
NEvents(r) == SumTo(r.sizes, Len(r.sizes))

\* run.nsteps()
NSteps(r) == Len(r.sizes)

\* the event the stream yields as number e (0-based) of step index k (0-based)
StreamEvent(r, k, e) == SumTo(r.sizes, k) + e

\* the snapshots a step's configStore may hold: a resolvable one and one with
\* two Partition records
CfgSnapshot(id) ==
    IF id = "good"
    THEN Snapshot(<<PartitionRec("ConfigV2", <<[src |-> SrcA, group |-> 1]>>)>>,
                  <<SrcA>>, <<>>, FALSE, Evr(TRUE, TRUE, TRUE, <<>>, NoWiring))
    ELSE Snapshot(<<PartitionRec("ConfigV2", <<[src |-> SrcA, group |-> 1]>>),
                    PartitionRec("ConfigV2", <<[src |-> SrcB, group |-> 1]>>)>>,
                  <<SrcA>>, <<>>, FALSE, Evr(TRUE, TRUE, TRUE, <<>>, NoWiring))

\* the configStore the data source shows: the current step's in a stream,
\* the first step's otherwise
CurrentCfg(d, r) ==
    IF r.mode = "smd" /\ d.sStep >= 0 THEN r.cfg[d.sStep + 1] ELSE r.cfg[1]

NoArg == [kind |-> "none", v |-> 0]

\* the DataSource object before __init__ has run; an attribute that does not
\* exist yet is <<>> (optional integers) or "none"
NewDataSource ==
    [pc |-> "new", exc |-> "none",
     _ievent |-> -1, _istep |-> -1, _irun |-> -1,
     _ievent_last |-> <<>>, _istep_last |-> <<>>,
     _current_evt |-> -1, _evt_keys |-> -1,
     _current_step |-> FALSE, _current_run |-> FALSE,
     _ds |-> FALSE, sStep |-> -1, sEvt |-> 0, _ds_step |-> -1, stepOfOldDs |-> FALSE,
     _ConfigData |-> "none", _aliases |-> "none", _detectors |-> "none",
     _scanData |-> <<>>,
     cfgFailed |-> FALSE,     \* the call in progress saw ConfigData fail to build
     cfgBuilt |-> FALSE]      \* the call in progress ran ConfigData(ds)

Throw(d, e) == [d EXCEPT !.exc = e]

----------------------------------------------------------------------------
(* DataSource, Runs, RunEvents, SmdEvents, Steps, StepEvents, Events *)

\* DataSource._load_ConfigData and the lines of _init_detectors after it, c
\* being what ConfigData(ds) gave for the snapshot id: its exception leaves
\* _init_detectors; an object whose __init__ returned early has no _aliases
load_ConfigData(d1, id, c) ==
    IF c.exc # "none" THEN Throw([d1 EXCEPT !.cfgFailed = TRUE, !.cfgBuilt = TRUE], c.exc)
    ELSE IF c.returned
    THEN Throw([d1 EXCEPT !._ConfigData = id, !.cfgFailed = TRUE, !.cfgBuilt = TRUE],
               "AttributeError")
    ELSE [d1 EXCEPT !._ConfigData = id, !._aliases = id, !._detectors = id,
                    !.cfgBuilt = TRUE]

\* DataSource._init_detectors
init_detectors(d, r) ==
    load_ConfigData([d EXCEPT !._detectors = "empty"], CurrentCfg(d, r),
                    ConfigData_init(CfgSnapshot(CurrentCfg(d, r))))

\* the statements a call runs after d1 = the call before them, unless that raised
Then(d1, field, v) == IF d1.exc # "none" THEN d1 ELSE [d1 EXCEPT ![field] = v]

\* Runs.next
Runs_next(d, r) ==
    Then(init_detectors([d EXCEPT !._irun = @ + 1, !._istep = -1, !._ievent = -1], r),
         "_current_run", TRUE)

\* Events.__init__
Events_init(d, r) == init_detectors(d, r)

\* load_run with a reload that also drops the cached scan table
load_run_cursor_clear(d2, r, reload) ==
    IF r.mode = "idx" THEN Runs_next(d2, r)
    ELSE IF r.mode = "smd" THEN [d2 EXCEPT !._scanData = <<>>]
    ELSE Events_init(d2, r)

\* DataSource.load_run from "if self.data_source.idx": the cursor of the access mode
load_run_cursor(d2, r, reload) ==
    IF r.mode = "idx" THEN Runs_next(d2, r)
    ELSE IF r.mode = "smd"
    THEN IF reload THEN d2 ELSE [d2 EXCEPT !._scanData = <<>>]
    ELSE Events_init(d2, r)

\* DataSource.load_run: the attributes it resets, then the psana.DataSource it opens
load_run(d, r, reload) ==
    IF r.monshm /\ d._ds
    THEN Throw([d EXCEPT !._current_evt = -1, !._current_step = FALSE,
                         !._current_run = FALSE, !._evt_keys = -1],
               "UnboundLocalError")              \* try_idx is read before it is bound
    ELSE load_run_cursor([d EXCEPT !._current_evt = -1, !._current_step = FALSE,
                                   !._current_run = FALSE, !._evt_keys = -1, !.exc = "none",
                                   !._ds = TRUE, !.sStep = -1, !.sEvt = 0,
                                   !.stepOfOldDs = (d._ds_step >= 0),
                                   !._ievent = -1, !._istep = -1, !._irun = -1],
                         r, reload)

\* DataSource.reload
reload(d, r) == load_run(d, r, TRUE)

\* RunEvents.next with an advance that steps over an event
RunEvents_next_skip(d, r, t) ==
    LET n == NEvents(r)
        d1 == IF t.kind = "int" THEN [d EXCEPT !._ievent = t.v]
              ELSE IF t.kind = "time"
              THEN IF t.v \in 0..(n - 1) THEN [d EXCEPT !._ievent = t.v]
                   ELSE Throw(d, "ValueError")
              ELSE [d EXCEPT !._ievent = @ + 2]
        i == d1._ievent
    IN  IF d1.exc # "none" THEN Throw(d1, "StopIteration")
        ELSE IF i >= n THEN Throw(d1, "StopIteration")
        ELSE IF i < 0 - n THEN Throw(d1, "StopIteration")
        ELSE LET evt == IF i >= 0 THEN i ELSE n + i
             IN  [d1 EXCEPT !._evt_keys = evt, !._current_evt = evt]

\* RunEvents.next with a jump that keeps the event index it had
RunEvents_next_stale(d, r, t) ==
    LET n == NEvents(r)
        d1 == IF t.kind = "int" THEN d
              ELSE IF t.kind = "time"
              THEN IF t.v \in 0..(n - 1) THEN [d EXCEPT !._ievent = t.v]
                   ELSE Throw(d, "ValueError")
              ELSE [d EXCEPT !._ievent = @ + 1]
        i == IF t.kind = "int" THEN t.v ELSE d1._ievent
    IN  IF d1.exc # "none" THEN Throw(d1, "StopIteration")
        ELSE IF i >= n THEN Throw(d1, "StopIteration")
        ELSE IF i < 0 - n THEN Throw(d1, "StopIteration")
        ELSE LET evt == IF i >= 0 THEN i ELSE n + i
             IN  [d1 EXCEPT !._evt_keys = evt, !._current_evt = evt]

\* RunEvents.next without its "except: raise StopIteration()"
RunEvents_next_raise(d, r, t) ==
    LET n == NEvents(r)
        d1 == IF t.kind = "int" THEN [d EXCEPT !._ievent = t.v]
              ELSE IF t.kind = "time"
              THEN IF t.v \in 0..(n - 1) THEN [d EXCEPT !._ievent = t.v]
                   ELSE Throw(d, "ValueError")
              ELSE [d EXCEPT !._ievent = @ + 1]
        i == d1._ievent
    IN  IF d1.exc # "none" THEN d1
        ELSE IF i >= n THEN Throw(d1, "StopIteration")
        ELSE IF i < 0 - n THEN Throw(d1, "IndexError")
        ELSE LET evt == IF i >= 0 THEN i ELSE n + i
             IN  [d1 EXCEPT !._evt_keys = evt, !._current_evt = evt]

\* RunEvents.next
RunEvents_next(d, r, t) ==
    LET n == NEvents(r)
        d1 == IF t.kind = "int" THEN [d EXCEPT !._ievent = t.v]
              ELSE IF t.kind = "time"
              THEN IF t.v \in 0..(n - 1) THEN [d EXCEPT !._ievent = t.v]
                   ELSE Throw(d, "ValueError")           \* self.times.index(evt_time)
              ELSE [d EXCEPT !._ievent = @ + 1]
        i == d1._ievent
    IN  IF d1.exc # "none" THEN Throw(d1, "StopIteration")
        ELSE IF i >= n THEN Throw(d1, "StopIteration")
        ELSE IF i < 0 - n THEN Throw(d1, "StopIteration")  \* IndexError of self.times[i]
        ELSE LET evt == IF i >= 0 THEN i ELSE n + i         \* a negative index counts from the end
             IN  [d1 EXCEPT !._evt_keys = evt, !._current_evt = evt]

\* StepEvents.next with an advance that does not recover the indices saved at the jump
StepEvents_next_stuck(d, r, t) ==
    LET n == NEvents(r)
    IN  IF t.kind # "none"
        THEN LET d1 == IF d._istep >= 0
                       THEN [d EXCEPT !._ievent_last = <<d._ievent>>,
                                      !._istep_last = <<d._istep>>, !._istep = -1]
                       ELSE d
             IN  IF t.kind = "time"
                 THEN IF t.v \in 0..(n - 1)
                      THEN [d1 EXCEPT !._ievent = t.v, !._evt_keys = t.v, !._current_evt = t.v]
                      ELSE d1
                 ELSE LET d2 == [d1 EXCEPT !._ievent = t.v]
                      IN  IF t.v >= n \/ t.v < 0 - n
                          THEN d2
                          ELSE LET evt == IF t.v >= 0 THEN t.v ELSE n + t.v
                               IN  [d2 EXCEPT !._evt_keys = evt, !._current_evt = evt]
        ELSE LET d2 == [d EXCEPT !._ievent = @ + 1]
             IN  IF d2._ds_step < 0 \/ d2.stepOfOldDs
                 THEN Throw(d2, "StopIteration")
                 ELSE IF d2.sEvt >= r.sizes[d2._ds_step + 1]
                 THEN Throw(d2, "StopIteration")
                 ELSE LET evt == StreamEvent(r, d2._ds_step, d2.sEvt)
                      IN  [d2 EXCEPT !.sEvt = @ + 1, !._evt_keys = evt, !._current_evt = evt]

\* StepEvents.next with a jump that saves the position at every jump
StepEvents_next_resave(d, r, t) ==
    LET n == NEvents(r)
    IN  IF t.kind # "none"
        THEN LET d1 == [d EXCEPT !._ievent_last = <<d._ievent>>,
                                 !._istep_last = <<d._istep>>, !._istep = -1]
             IN  IF t.kind = "time"
                 THEN IF t.v \in 0..(n - 1)
                      THEN [d1 EXCEPT !._ievent = t.v, !._evt_keys = t.v, !._current_evt = t.v]
                      ELSE d1                 \* ValueError of index(): printed, not raised
                 ELSE LET d2 == [d1 EXCEPT !._ievent = t.v]
                      IN  IF t.v >= n \/ t.v < 0 - n
                          THEN d2             \* IndexError of _idx_times[i]: printed, not raised
                          ELSE LET evt == IF t.v >= 0 THEN t.v ELSE n + t.v
                               IN  [d2 EXCEPT !._evt_keys = evt, !._current_evt = evt]
        ELSE LET d1 == IF d._istep = -1
                       THEN IF d._ievent_last = <<>>
                            THEN Throw(d, "AttributeError")
                            ELSE [d EXCEPT !._ievent = d._ievent_last[1],
                                           !._istep = d._istep_last[1]]
                       ELSE d
                 d2 == [d1 EXCEPT !._ievent = @ + 1]
             IN  IF d1.exc # "none" THEN Throw(d1, "StopIteration")
                 ELSE IF d2._ds_step < 0 \/ d2.stepOfOldDs
                 THEN Throw(d2, "StopIteration")         \* no step of this data source is held
                 ELSE IF d2.sEvt >= r.sizes[d2._ds_step + 1]
                 THEN Throw(d2, "StopIteration")         \* the step has no further event
                 ELSE LET evt == StreamEvent(r, d2._ds_step, d2.sEvt)
                      IN  [d2 EXCEPT !.sEvt = @ + 1, !._evt_keys = evt, !._current_evt = evt]

\* StepEvents.next
StepEvents_next(d, r, t) ==
    LET n == NEvents(r)
    IN  IF t.kind # "none"
        THEN LET d1 == IF d._istep >= 0
                       THEN [d EXCEPT !._ievent_last = <<d._ievent>>,
                                      !._istep_last = <<d._istep>>, !._istep = -1]
                       ELSE d
             IN  IF t.kind = "time"
                 THEN IF t.v \in 0..(n - 1)
                      THEN [d1 EXCEPT !._ievent = t.v, !._evt_keys = t.v, !._current_evt = t.v]
                      ELSE d1                 \* ValueError of index(): printed, not raised
                 ELSE LET d2 == [d1 EXCEPT !._ievent = t.v]
                      IN  IF t.v >= n \/ t.v < 0 - n
                          THEN d2             \* IndexError of _idx_times[i]: printed, not raised
                          ELSE LET evt == IF t.v >= 0 THEN t.v ELSE n + t.v
                               IN  [d2 EXCEPT !._evt_keys = evt, !._current_evt = evt]
        ELSE LET d1 == IF d._istep = -1
                       THEN IF d._ievent_last = <<>>
                            THEN Throw(d, "AttributeError")
                            ELSE [d EXCEPT !._ievent = d._ievent_last[1],
                                           !._istep = d._istep_last[1]]
                       ELSE d
                 d2 == [d1 EXCEPT !._ievent = @ + 1]
             IN  IF d1.exc # "none" THEN Throw(d1, "StopIteration")
                 ELSE IF d2._ds_step < 0 \/ d2.stepOfOldDs
                 THEN Throw(d2, "StopIteration")         \* no step of this data source is held
                 ELSE IF d2.sEvt >= r.sizes[d2._ds_step + 1]
                 THEN Throw(d2, "StopIteration")         \* the step has no further event
                 ELSE LET evt == StreamEvent(r, d2._ds_step, d2.sEvt)
                      IN  [d2 EXCEPT !.sEvt = @ + 1, !._evt_keys = evt, !._current_evt = evt]

\* "except: raise StopIteration()" around the call that gave d1
StopIteration(d1) == IF d1.exc # "none" THEN Throw(d1, "StopIteration") ELSE d1

\* Steps.next
Steps_next(d, r) ==
    IF d._istep = NSteps(r) - 1 THEN Throw(d, "StopIteration")
    ELSE IF d.sStep >= NSteps(r) - 1
    THEN Throw([d EXCEPT !._ievent = -1, !._istep = @ + 1],
               "StopIteration")                          \* the stream has no further step
    ELSE Then(StopIteration(init_detectors(
                  [d EXCEPT !._ievent = -1, !._istep = @ + 1,
                            !.sStep = @ + 1, !.sEvt = 0,
                            !._ds_step = d.sStep + 1, !.stepOfOldDs = FALSE], r)),
              "_current_step", TRUE)

\* SmdEvents.next that goes to the next step before it asks the current one
SmdEvents_next_eager(d, r, t) ==
    LET d2 == Steps_next(d, r)
    IN  IF d2.exc # "none"
        THEN IF d._current_step
             THEN LET d1 == StepEvents_next(d, r, t)
                  IN  IF d1.exc # "none" THEN Throw(d1, "StopIteration") ELSE d1
             ELSE Throw(d2, "StopIteration")
        ELSE LET d3 == StepEvents_next(d2, r, NoArg)
             IN  IF d3.exc # "none" THEN Throw(d3, "StopIteration") ELSE d3

\* SmdEvents.next, the inner try: d2 is ds after self._ds.steps.next()
SmdEvents_first(d2, r) ==
    IF d2.exc # "none" THEN Throw(d2, "StopIteration")
    ELSE StopIteration(StepEvents_next(d2, r, NoArg))

\* SmdEvents.next, the outer except: d1 is ds after self._ds._current_step.next(evt_time)
SmdEvents_except(d1, r) ==
    IF d1.exc = "none" THEN d1
    ELSE SmdEvents_first(Steps_next([d1 EXCEPT !.exc = "none"], r), r)

\* SmdEvents.next
SmdEvents_next(d, r, t) ==
    SmdEvents_except(IF d._current_step THEN StepEvents_next(d, r, t)
                     ELSE Throw(d, "AttributeError"),    \* None has no next
                     r)

\* Events.next
Events_next(d, r) ==
    LET d1 == [d EXCEPT !._ievent = @ + 1]
    IN  IF d1.sEvt >= NEvents(r) THEN Throw(d1, "StopIteration")
        ELSE [d1 EXCEPT !.sEvt = @ + 1, !._evt_keys = d1.sEvt, !._current_evt = d1.sEvt]

\* self.reload() as the statement after the call that gave d1
reload_after(d1, r) == IF d1.exc # "none" THEN d1 ELSE reload(d1, r)

\* Events.next when a signal (KeyboardInterrupt) ends the blocking
\* self._ds._ds.events().next(): the bare except catches it
Events_next_interrupted(d, r) == Throw([d EXCEPT !._ievent = @ + 1], "StopIteration")

\* DataSource._load_smd_config
load_smd_config(d, r) == reload_after(Steps_next(d, r), r)

\* DataSource.__init__ after load_run: "if self.data_source.smd: self._load_smd_config()"
DataSource_smd(d1, r) ==
    IF d1.exc = "none" /\ r.mode = "smd" THEN load_smd_config(d1, r) ELSE d1

\* the caller holds the object when __init__ has not raised
Constructed(d2) == [d2 EXCEPT !.pc = IF d2.exc = "none" THEN "ready" ELSE "failed"]

\* DataSource.__init__
DataSource_init(d, r) == Constructed(DataSource_smd(load_run(d, r, FALSE), r))

\* ds.events.next(evt_time) for the cursor the access mode selects
events_next(d, r, t) ==
    IF r.mode = "idx" THEN RunEvents_next(d, r, t)
    ELSE IF r.mode = "smd" THEN SmdEvents_next(d, r, t)
    ELSE Events_next(d, r)

\* the handle EvtDetectors(ds) that current and next return: it reads the
\* indices, the event and the event keys from ds
current(d) ==
    [istep |-> d._istep, ievent |-> d._ievent,
     evt |-> d._current_evt, keys |-> d._evt_keys]


----------------------------------------------------------------------------
(* ScanData.__init__ and the ConfigData.ScanData property *)

\* "for istep, events in enumerate(ds.steps)": the loop ends when Steps.next
\* raises StopIteration; a StopIteration of events.next() leaves __init__
RECURSIVE ScanSteps(_, _, _, _)

\* the body of that loop after evt = events.next(); d2._current_evt is the
\* ievent of ds._idx_times_tuple.index(ttup)
ScanFirst(d2, r, starts, ends) ==
    IF d2.exc # "none"
    THEN [d |-> d2, starts |-> starts, ends |-> ends]
    ELSE ScanSteps(d2, r, Append(starts, d2._current_evt),
                   IF Len(starts) > 0 THEN Append(ends, d2._current_evt - 1) ELSE ends)

\* one pass of that loop: d1 is ds after Steps.next
ScanStep(d1, r, starts, ends) ==
    IF d1.exc # "none"
    THEN [d |-> [d1 EXCEPT !.exc = "none"], starts |-> starts, ends |-> ends]
    ELSE ScanFirst(StepEvents_next(d1, r, NoArg), r, starts, ends)

ScanSteps(d, r, starts, ends) == ScanStep(Steps_next(d, r), r, starts, ends)

\* "for istep, ievent in enumerate(ievent_end)": ds.events.next(ievent)
RECURSIVE ScanEndTimes(_, _, _, _)
ScanEndTimes(d, r, ends, i) ==
    IF i > Len(ends) \/ d.exc # "none" THEN d
    ELSE ScanEndTimes(SmdEvents_next(d, r, [kind |-> "int", v |-> ends[i]]), r, ends, i + 1)

\* ScanData.__init__ from "self._scanData['ievent_start'] = ..." to its final reload
ScanTable(d2, r, ievent_start, ievent_end) ==
    IF d2.exc # "none" THEN d2
    ELSE IF Len(ievent_start) # Len(ievent_end)
    THEN Throw(d2, "ValueError")                 \* arrays of different shape
    ELSE [reload(d2, r) EXCEPT !._scanData =
             <<[nsteps |-> NSteps(r),
                ievent_start |-> ievent_start,
                ievent_end |-> ievent_end,
                nevents |-> [j \in 1..Len(ievent_end) |->
                                ievent_end[j] - ievent_start[j]]]>>]

\* ScanData.__init__ after the loop over the steps, which gave lp
ScanRanges(lp, r) ==
    IF lp.d.exc # "none" THEN lp.d
    ELSE ScanTable(ScanEndTimes(lp.d, r, Append(lp.ends, NEvents(r) - 1), 1), r,
                   lp.starts, Append(lp.ends, NEvents(r) - 1))

\* ScanData.__init__ up to the event ranges of the steps, and its final reload
ScanData_init(d, r) == ScanRanges(ScanSteps(reload(d, r), r, <<>>, <<>>), r)

\* ConfigData.ScanData: built at the first access, cached in ds._scanData
ScanData(d, r) ==
    IF r.mode # "smd" THEN d
    ELSE IF d._scanData = <<>> THEN ScanData_init(d, r)
    ELSE d

\* the attributes of ControlData that the classification reads, for one step
ControlData(d, e, l, nc, nm) ==
    [uses_duration |-> d, uses_events |-> e, uses_l3t_events |-> l,
     npvControls |-> nc, npvMonitors |-> nm]

ControlU ==
    {ControlData(d, e, l, nc, nm) : d, e, l \in BOOLEAN, nc, nm \in 0..1}

\* the ControlData of the steps the loop of ScanData.__init__ visits
ControlSeqs == UNION {[1..k -> ControlU] : k \in 1..MaxSteps}

\* all(self._scanData.get(attr)): the values of attr of the steps from i on are all true
RECURSIVE All(_, _, _)
All(cd, attr, i) ==
    IF i > Len(cd) THEN TRUE ELSE cd[i][attr] /\ All(cd, attr, i + 1)

\* set(self._scanData[attr])
ValueSet(cd, attr) == {cd[i][attr] : i \in 1..Len(cd)}

\* no ScanData object yet
NoScan == [built |-> FALSE, uses_duration |-> FALSE, uses_events |-> FALSE,
           uses_l3t_events |-> FALSE, _is_simple |-> "undef"]

\* the classification that looks at the numbers of variables only
ScanData_classify_counts(cd) ==
    [built |-> TRUE,
     uses_duration |-> All(cd, "uses_duration", 1),
     uses_events |-> All(cd, "uses_events", 1),
     uses_l3t_events |-> All(cd, "uses_l3t_events", 1),
     _is_simple |->
        IF /\ Cardinality(ValueSet(cd, "npvControls")) = 1
           /\ Cardinality(ValueSet(cd, "npvMonitors")) = 1
        THEN "True" ELSE "undef"]

\* ScanData.__init__, lines 323-329: the uses_ attributes and _is_simple,
\* which the code sets to True or does not set at all
ScanData_classify(cd) ==
    [built |-> TRUE,
     uses_duration |-> All(cd, "uses_duration", 1),
     uses_events |-> All(cd, "uses_events", 1),
     uses_l3t_events |-> All(cd, "uses_l3t_events", 1),
     _is_simple |->
        IF /\ \/ All(cd, "uses_duration", 1)
              \/ All(cd, "uses_events", 1)
              \/ All(cd, "uses_l3t_events", 1)
           /\ Cardinality(ValueSet(cd, "npvControls")) = 1
           /\ Cardinality(ValueSet(cd, "npvMonitors")) = 1
        THEN "True" ELSE "undef"]

----------------------------------------------------------------------------
(* The cursor as a state machine: one action per call the caller makes *)

Modes == {"idx", "smd", "live"}

\* step sizes of the recorded runs
SizeSeqs ==
    {q \in UNION {[1..k -> 0..MaxEvents] : k \in 1..MaxSteps} :
        SumTo(q, Len(q)) <= MaxEvents}

\* the recorded runs; an indexed or live data source shows one configStore,
\* and only a live one can be a shared-memory server
Runs_ ==
    {r \in [mode : Modes, monshm : BOOLEAN, sizes : SizeSeqs,
            cfg : UNION {[1..k -> {"good", "ambiguous"}] : k \in 1..MaxSteps}] :
        /\ Len(r.cfg) = Len(r.sizes)
        /\ r.monshm => r.mode = "live"
        /\ r.mode # "smd" => Len(r.sizes) = 1}

\* jump targets: an event number, or an event time (named by the index of the
\* event that carries it): the time of the first event, and a time that is not
\* in the run (NEvents)
Targets(r) ==
    [kind : {"int"}, v : (0 - 1)..NEvents(r)] \cup [kind : {"time"}, v : {0, NEvents(r)}]

NoPos == [istep |-> -1, ievent |-> -1, sStep |-> -1, sEvt |-> 0, single |-> FALSE]

\* the position of the cursor and of the stream; single: one jump was made from it
Pos(d) == [istep |-> d._istep, ievent |-> d._ievent, sStep |-> d.sStep, sEvt |-> d.sEvt,
           single |-> TRUE]

\* the object as a call of the caller finds it
Enter(d) == [d EXCEPT !.exc = "none", !.cfgFailed = FALSE, !.cfgBuilt = FALSE]

\* what the caller gets: the event of the handle returned, or the exception
Result(d) ==
    [exc |-> d.exc, ev |-> IF d.exc = "none" THEN d._current_evt ELSE -1]

\* the call o with target a took ds to d
Call(o, a, d) ==
    /\ ds' = d
    /\ op' = o
    /\ arg' = a
    /\ ret' = Result(d)
    /\ anchor' = IF o = "jump"
                 THEN (IF op = "jump" THEN [anchor EXCEPT !.single = FALSE] ELSE Pos(ds))
                 ELSE IF o = "advance" /\ op = "jump" THEN anchor
                 ELSE NoPos
    /\ nAdv' = IF o \in {"construct", "reload"} /\ d.exc = "none" THEN 0
               ELSE IF o = "advance" /\ nAdv >= 0 THEN nAdv + 1
               ELSE -1
    /\ delivered' = IF nAdv' <= 0 THEN {}
                    ELSE IF d.exc = "none" THEN delivered \cup {d._current_evt}
                    ELSE delivered
    /\ UNCHANGED <<snap, graph, run, control, scan>>

Init ==
    /\ run \in Runs_
    /\ ds = NewDataSource
    /\ op = "new" /\ arg = NoArg /\ ret = Result(NewDataSource)
    /\ anchor = NoPos /\ nAdv = -1 /\ delivered = {}
    /\ snap = CfgSnapshot("good") /\ graph = Unbuilt
    /\ control = <<>> /\ scan = NoScan

\* ds = DataSource(...)
Construct ==
    /\ ds.pc = "new"
    /\ Call("construct", NoArg, DataSource_init(Enter(ds), run))

\* the event index the next advance() counts up from
AdvanceBase(d, r) ==
    IF r.mode = "smd" /\ d._current_step /\ d._istep = -1 /\ d._ievent_last # <<>>
    THEN d._ievent_last[1] ELSE d._ievent

\* ds.events.next()
Advance ==
    /\ ds.pc = "ready"
    /\ AdvanceBase(ds, run) < NEvents(run) + MaxOverrun
    /\ Call("advance", NoArg, events_next(Enter(ds), run, NoArg))

\* ds.events.next() of a live data source, interrupted while it waits for the feed
AdvanceInterrupted ==
    /\ ds.pc = "ready"
    /\ run.mode = "live"
    /\ AdvanceBase(ds, run) < NEvents(run) + MaxOverrun
    /\ Call("interrupt", NoArg, Events_next_interrupted(Enter(ds), run))

\* ds.events.next(evt_time)
Jump ==
    /\ ds.pc = "ready"
    /\ run.mode \in {"idx", "smd"}
    /\ \E t \in Targets(run) : Call("jump", t, events_next(Enter(ds), run, t))

\* ds.steps.next()
StepsNext ==
    /\ ds.pc = "ready"
    /\ run.mode = "smd"
    /\ Call("steps", NoArg, Steps_next(Enter(ds), run))

\* ds.reload()
Reload ==
    /\ ds.pc = "ready"
    /\ Call("reload", NoArg, reload(Enter(ds), run))

\* ds.configData.ScanData
ScanDataAccess ==
    /\ ds.pc = "ready"
    /\ run.mode = "smd"
    /\ Call("scan", NoArg, ScanData(Enter(ds), run))

Next ==
    Construct \/ Advance \/ AdvanceInterrupted \/ Jump \/ StepsNext \/ Reload \/ ScanDataAccess

Spec == Init /\ [][Next]_vars

----------------------------------------------------------------------------
(* The resolver as a state machine: a snapshot is drawn, ConfigData is built *)

InitCfg ==
    /\ snap \in Snapshots
    /\ graph = Unbuilt
    /\ run = [mode |-> "idx", monshm |-> FALSE, sizes |-> <<0>>, cfg |-> <<"good">>]
    /\ ds = NewDataSource
    /\ op = "new" /\ arg = NoArg /\ ret = Result(NewDataSource)
    /\ anchor = NoPos /\ nAdv = -1 /\ delivered = {}
    /\ control = <<>> /\ scan = NoScan

\* ConfigData(ds)
Build ==
    /\ graph.exc = "unbuilt"
    /\ graph' = ConfigData_init(snap)
    /\ UNCHANGED <<snap, run, ds, op, arg, ret, anchor, nAdv, delivered, control, scan>>

NextCfg == Build

SpecCfg == InitCfg /\ [][NextCfg]_vars

\* the scan aggregator on the ControlData of the steps of a run
InitScan ==
    /\ control \in ControlSeqs
    /\ scan = NoScan
    /\ snap = CfgSnapshot("good") /\ graph = Unbuilt
    /\ run = [mode |-> "smd", monshm |-> FALSE, sizes |-> [i \in 1..Len(control) |-> 1],
              cfg |-> [i \in 1..Len(control) |-> "good"]]
    /\ ds = NewDataSource
    /\ op = "new" /\ arg = NoArg /\ ret = Result(NewDataSource)
    /\ anchor = NoPos /\ nAdv = -1 /\ delivered = {}

\* ScanData(ds), lines 323-331
Classify ==
    /\ scan = NoScan
    /\ scan' = ScanData_classify(control)
    /\ UNCHANGED <<snap, graph, run, ds, op, arg, ret, anchor, nAdv, delivered, control>>

NextScan == Classify

SpecScan == InitScan /\ [][NextScan]_vars

----------------------------------------------------------------------------
(* Properties of the cursors (checked under Spec)                          *)

\* the handle of event e, returned without exception
Ev(e) == [exc |-> "none", ev |-> e]

\* the step that holds the event with run-wide index e
StepOf(r, e) ==
    CHOOSE k \in 0..(NSteps(r) - 1) : SumTo(r.sizes, k) <= e /\ e < SumTo(r.sizes, k + 1)

\* a freshly loaded run
Fresh(r) == DataSource_init(NewDataSource, r)

\* k calls of events.next() on an indexed run
RECURSIVE AdvanceN(_, _, _)
AdvanceN(d, r, k) ==
    IF k = 0 THEN d ELSE AdvanceN(RunEvents_next(Enter(d), r, NoArg), r, k - 1)

\* C1: indexed mode, from a freshly loaded run with N events: the k-th of N
\* successive events.next() calls returns event k-1 (so the indices run
\* 0, 1, ..., N-1 without gap or repeat) and the (N+1)-th raises StopIteration.
C1_IndexedAdvanceInOrder ==
    (run.mode = "idx" /\ nAdv >= 1) =>
        /\ nAdv <= NEvents(run) => (ret = Ev(nAdv - 1) /\ ds._ievent = nAdv - 1)
        /\ nAdv = NEvents(run) + 1 => ret.exc = "StopIteration"

\* an indexed run of at least two events was read to its end and one call more
C1_Witness ==
    /\ run.mode = "idx" /\ NEvents(run) >= 2
    /\ nAdv = NEvents(run) + 1 /\ ret.exc = "StopIteration"
    /\ ds._current_evt = NEvents(run) - 1

\* C2: streaming with steps, events.next() calls with no jump in between: the
\* events returned so far are exactly the events up to the one just returned,
\* in the order of the steps: every event of an earlier step was returned
\* before it, and no event of a later step was.
C2_StepsInOrder ==
    (run.mode = "smd" /\ nAdv >= 1 /\ ret.exc = "none") =>
        LET k == StepOf(run, ret.ev)
        IN  /\ ds._istep = k
            /\ \A e \in 0..(NEvents(run) - 1) : StepOf(run, e) < k => e \in delivered
            /\ \A e \in delivered : StepOf(run, e) <= k
            /\ delivered = 0..ret.ev

\* the first event of the second step is returned after both events of the first
C2_Witness ==
    /\ run.mode = "smd" /\ NSteps(run) >= 2 /\ run.sizes[1] = 2 /\ run.sizes[2] >= 1
    /\ nAdv = 3 /\ ret = Ev(2) /\ ds._istep = 1 /\ delivered = {0, 1, 2}

\* events.next() right after jumps made from step anchor.istep, event anchor.ievent
AdvanceAfterJump ==
    run.mode = "smd" /\ op = "advance" /\ anchor.istep >= 0

\* the position the jump was made from is the one the step stream is at: event
\* anchor.ievent of step anchor.istep is the last event read from the stream
InSync == anchor.sStep = anchor.istep /\ anchor.sEvt = anchor.ievent + 1

\* step anchor.istep has an event after anchor.ievent
InStep == anchor.ievent + 1 < run.sizes[anchor.istep + 1]

\* C3 as stated: after a jump made at step s, event e, the next events.next()
\* restores step s and returns event e+1 of step s.
C3_ResumeInStep ==
    (AdvanceAfterJump /\ anchor.single /\ InSync /\ anchor.ievent >= 0) =>
        /\ ds._istep = anchor.istep
        /\ ret = Ev(StreamEvent(run, anchor.istep, anchor.ievent + 1))

\* C3 amended: after jumps made at step s, event e (the last event read from
\* the stream), the next events.next() restores step s and index e+1 and
\* returns event e+1 of step s when step s has such an event; when e is the
\* last event of step s it returns the first event of step s+1 with the
\* indices (s+1, 0), or raises StopIteration.
C3_ResumeStream ==
    (AdvanceAfterJump /\ InSync) =>
        IF InStep
        THEN /\ ds._istep = anchor.istep /\ ds._ievent = anchor.ievent + 1
             /\ ret = Ev(StreamEvent(run, anchor.istep, anchor.ievent + 1))
        ELSE \/ ret.exc = "StopIteration"
             \/ /\ ds._istep = anchor.istep + 1 /\ ds._ievent = 0
                /\ ret = Ev(StreamEvent(run, anchor.istep + 1, 0))

\* a jump from event 0 of a step of two events, then events.next() returns event 1
C3_Witness ==
    /\ AdvanceAfterJump /\ anchor.single /\ InSync /\ InStep
    /\ anchor.ievent = 0 /\ ret = Ev(StreamEvent(run, anchor.istep, 1))

\* C4: indexed mode: events.next(i) with 0 <= i < N, from any state of the
\* cursor, returns event i and leaves the handle (indices, event, event keys)
\* that i+1 calls of events.next() from a freshly loaded run leave.
C4_JumpEqualsAdvances ==
    (run.mode = "idx" /\ op = "jump" /\ arg.kind = "int" /\ arg.v \in 0..(NEvents(run) - 1)) =>
        /\ ret = Ev(arg.v)
        /\ current(ds) = current(AdvanceN(Fresh(run), run, arg.v + 1))

\* a jump back to event 1 from a cursor that had run past the last event
C4_Witness ==
    /\ run.mode = "idx" /\ op = "jump" /\ arg = [kind |-> "int", v |-> 1]
    /\ NEvents(run) >= 2 /\ anchor.ievent >= NEvents(run)
    /\ ret = Ev(1) /\ ds._ievent = 1

\* C9: the scan table of a run has one row per step and nevents[j] is the
\* number of events of step j.
C9_ScanEventCounts ==
    ds._scanData # <<>> =>
        /\ ds._scanData[1].nsteps = NSteps(run)
        /\ ds._scanData[1].nevents = run.sizes

\* C10: when ConfigData fails to build during a call, the caller gets an
\* exception, and it is not StopIteration.
C10_ConfigFailureSurfaces ==
    ds.cfgFailed => (ret.exc # "none" /\ ret.exc # "StopIteration")

\* the jump target a names no event of the run: an index outside the list of
\* event times (Python indexes from the end for -N..-1), or a time not in it
InvalidTarget(a, r) ==
    \/ a.kind = "int" /\ (a.v >= NEvents(r) \/ a.v < 0 - NEvents(r))
    \/ a.kind = "time" /\ a.v \notin 0..(NEvents(r) - 1)

\* C11: indexed and streaming modes: a jump to an invalid target, made when
\* the cursor is at an event of the run, leaves the event index of that event.
C11_InvalidJumpKeepsPosition ==
    (/\ run.mode \in {"idx", "smd"} /\ op = "jump" /\ anchor.single
     /\ anchor.ievent \in 0..(NEvents(run) - 1) /\ InvalidTarget(arg, run)) =>
        ds._ievent = anchor.ievent

\* C12: indexed mode: a jump to an index past the list of event times, or to
\* a time that is not in it, raises StopIteration and no other exception.
C12_InvalidJumpIsExhaustion ==
    (run.mode = "idx" /\ op = "jump" /\ InvalidTarget(arg, run)) =>
        ret.exc = "StopIteration"

\* a jump to a time that is not in a run of at least one event, from an event of it
C12_Witness ==
    /\ run.mode = "idx" /\ op = "jump" /\ NEvents(run) >= 1
    /\ arg = [kind |-> "time", v |-> NEvents(run)]
    /\ anchor.ievent = 0 /\ ret.exc = "StopIteration"

\* C13: live mode: an events.next() that is interrupted before the feed
\* delivers an event leaves the event index, the event and the event keys
\* as they were.
C13_InterruptKeepsPosition ==
    [][op' = "interrupt" =>
          /\ ds'._ievent = ds._ievent
          /\ ds'._current_evt = ds._current_evt
          /\ ds'._evt_keys = ds._evt_keys]_vars

\* C14: ConfigData and the alias and detector tables are rebuilt when an
\* indexed run is loaded, by every Steps.next of a streaming run, and by every
\* events.next() of a live data source.
C14_GraphRebuilt ==
    /\ (run.mode = "idx" /\ op \in {"construct", "reload"} /\ ret.exc = "none") => ds.cfgBuilt
    /\ (run.mode = "smd" /\ op = "steps" /\ ret.exc = "none") => ds.cfgBuilt
    /\ (run.mode = "live" /\ op = "advance" /\ ret.exc = "none") => ds.cfgBuilt

\* the run-wide index of the event that the index fields of a handle name:
\* within step istep when a step is current, run-wide after a jump
HandleIndex(h, r) ==
    IF r.mode = "smd" /\ h.istep >= 0 THEN SumTo(r.sizes, h.istep) + h.ievent ELSE h.ievent

\* C15: whenever the handle of current() holds an event record, its event keys
\* are those of that record and its index fields name that same event.
C15_HandleNamesItsEvent ==
    (ds.pc = "ready" /\ current(ds).evt >= 0) =>
        /\ current(ds).keys = current(ds).evt
        /\ HandleIndex(current(ds), run) = current(ds).evt

\* C16: ds.reload() completes in every mode and from every state, and leaves
\* the event index and the step index at -1 and no current event; the next
\* events.next() returns the first event of the run (stated for runs whose
\* first step holds an event).
C16_ReloadResets ==
    op = "reload" =>
        /\ ret.exc = "none"
        /\ ds._ievent = -1 /\ ds._istep = -1 /\ ds._current_evt = -1
        /\ run.sizes[1] >= 1 => Result(events_next(Enter(ds), run, NoArg)) = Ev(0)

\* C17 as stated: after ds.reload() of a streaming run no scan table is cached.
C17_ReloadInvalidates ==
    (op = "reload" /\ run.mode = "smd") => ds._scanData = <<>>

\* C17: the scan table is built at the first access of configData.ScanData
\* and cached: a later access leaves the cached table as it is, and so does
\* ds.reload() (only load_run without reload clears it).
C17_ScanCacheKept ==
    [][/\ (op' = "scan" /\ ds._scanData # <<>>) => ds'._scanData = ds._scanData
       /\ op' = "reload" => ds'._scanData = ds._scanData]_vars

C17_Witness ==
    /\ op = "reload" /\ run.mode = "smd" /\ ret.exc = "none"
    /\ ds._scanData # <<>>

\* C19: streaming, events.next() calls with no jump in between on a run whose
\* steps all build their configuration: StopIteration is raised only when
\* every event of the run was returned, whatever steps are empty.
C19_ExhaustionOnlyAtEnd ==
    (/\ run.mode = "smd" /\ nAdv >= 1 /\ ret.exc = "StopIteration"
     /\ \A i \in 1..Len(run.cfg) : run.cfg[i] = "good") =>
        delivered = 0..(NEvents(run) - 1)

\* C20: streaming: after every events.next(evt_time), the one made first
\* after the run was loaded or reloaded included, that returns a handle leaves
\* the step index at -1.
C20_JumpLeavesNoStep ==
    (run.mode = "smd" /\ op = "jump" /\ ret.exc = "none") => ds._istep = -1

\* C26: streaming, after any calls of events.next(), events.next(evt_time)
\* and steps.next(): a step index other than -1 is the index of the step the
\* psana step stream is at.
C26_StepIndexIsStreamStep ==
    (run.mode = "smd" /\ ds.pc = "ready" /\ op \in {"advance", "jump", "steps"}
     /\ ds._istep # 0 - 1) =>
        ds._istep = ds.sStep

\* events.next(evt_time) calls made from step anchor.istep, event anchor.ievent
AfterJumps == run.mode = "smd" /\ op = "jump" /\ anchor.istep >= 0

\* the position the jumps were made from is the saved one
SavedIsAnchor ==
    /\ ds._istep_last = <<anchor.istep>>
    /\ ds._ievent_last = <<anchor.ievent>>

\* C27 as stated: after one or more jumps made at step s, event e, the saved
\* position is (s, e), and the next events.next() restores step s and returns
\* event e+1 of step s.
C27_JumpsThenResumeInStep ==
    /\ AfterJumps => SavedIsAnchor
    /\ (AdvanceAfterJump /\ InSync /\ anchor.ievent >= 0) =>
          /\ ds._istep = anchor.istep
          /\ ret = Ev(StreamEvent(run, anchor.istep, anchor.ievent + 1))

\* C27 amended: after one or more jumps made at step s, event e, the saved
\* position is (s, e) and the step index is -1; the next events.next()
\* restores step s and returns event e+1 of step s when e is the last event
\* read from the stream and step s has an event e+1.
C27_JumpsKeepSavedPosition ==
    /\ AfterJumps => (SavedIsAnchor /\ ds._istep = 0 - 1)
    /\ (AdvanceAfterJump /\ InSync /\ InStep) =>
          /\ ds._istep = anchor.istep /\ ds._ievent = anchor.ievent + 1
          /\ ds._istep_last = <<anchor.istep>>
          /\ ret = Ev(StreamEvent(run, anchor.istep, anchor.ievent + 1))

\* two jumps from event 0 of a step of two events, then events.next() returns event 1
C27_Witness ==
    /\ AdvanceAfterJump /\ ~anchor.single /\ InSync /\ InStep
    /\ anchor.ievent = 0 /\ ret = Ev(StreamEvent(run, anchor.istep, 1))
    /\ ds._istep = anchor.istep

\* C28: in every mode an events.next() that raises StopIteration leaves the
\* event index and the step index as they were before the call.
C28_ExhaustionKeepsPosition ==
    [][(op' = "advance" /\ ret'.exc = "StopIteration") =>
          /\ ds'._ievent = ds._ievent
          /\ ds'._istep = ds._istep]_vars

\* C29: indexed mode: after every events.next() and events.next(evt_time)
\* that returns a handle, the event index is in 0..N-1 and the current event
\* is the event of times[event index].
C29_IndexedHandleInRange ==
    (run.mode = "idx" /\ op \in {"advance", "jump"} /\ ret.exc = "none") =>
        /\ ds._ievent \in 0..(NEvents(run) - 1)
        /\ ds._current_evt = ds._ievent

\* the cursor of d is where load_run leaves it
Unstarted(d) ==
    /\ d._istep = 0 - 1 /\ d._ievent = 0 - 1
    /\ ~d._current_step /\ d._current_evt = 0 - 1

\* C30: streaming: the access of configData.ScanData that builds the table
\* returns with the cursor unstarted, and the next events.next() returns the
\* first event of the run (stated for runs whose first step holds an event);
\* an access that finds the table cached leaves the cursor as it was.
C30_ScanAccessResetsCursor ==
    [][(run.mode = "smd" /\ op' = "scan") =>
          IF ds._scanData = <<>>
          THEN /\ ret'.exc = "none"
               /\ Unstarted(ds')
               /\ run.sizes[1] >= 1 =>
                     Result(events_next(Enter(ds'), run, NoArg)) = Ev(0)
          ELSE current(ds') = current(ds)]_vars

----------------------------------------------------------------------------
(* Properties of the resolver (checked under SpecCfg)                      *)

\* ConfigData(ds) has run on snap
Built == graph.exc # "unbuilt"

\* the (source, group) pairs the Partition record declares
PartMap(s) ==
    {<<s.parts[1].sources[i].src, s.parts[1].sources[i].group>> :
        i \in 1..Len(s.parts[1].sources)}

Marked(x) == Contains(x, "NoDetector") \/ Contains(x, "NoDevice")

\* the detector sources a snapshot without Partition record shows
Discovered(s) ==
    {x \in {ConfigKeys(s)[i] : i \in 1..Len(ConfigKeys(s))} :
        x.kind \in {"BldInfo", "DetInfo"} /\ ~Marked(x)}

\* C5: with no Partition record ConfigData(ds) does not raise, and every
\* discovered source is in _sources with group 0 and a non-empty alias.
C5_DegradedBuilds ==
    (Built /\ Len(snap.parts) = 0) =>
        /\ graph.exc = "none"
        /\ \A x \in Discovered(snap) : x \in DOMAIN graph._sources
        /\ \A x \in DOMAIN graph._sources :
              graph._sources[x].group = <<0>> /\ graph._sources[x].alias # <<>>

\* C6: with two Partition records ConfigData(ds) raises: no object is returned.
C6_AmbiguousRaises ==
    (Built /\ Len(snap.parts) = 2) => graph.exc # "none"

\* C7: one Partition record with sources {A: group 0, B: group 1}, no alias
\* record and no event code: ConfigData(ds) succeeds, A and B are in _sources
\* with the alias made from their own source string, and no readout group
\* holds an event code.
C7_SynthesizedAliases ==
    (/\ Built /\ Len(snap.parts) = 1
     /\ PartMap(snap) = {<<SrcA, 0>>, <<SrcB, 1>>}
     /\ snap.aliases = <<>> /\ snap.evr.eventcodes = <<>>) =>
        /\ graph.exc = "none" /\ ~graph.returned
        /\ \A x \in {SrcA, SrcB} :
              x \in DOMAIN graph._sources
              /\ graph._sources[x].alias = Sanitize(StripInfo(x))
        /\ \A g \in DOMAIN graph._readoutGroup : graph._readoutGroup[g].eventCodes = <<>>

\* C8: event codes 40 then 140, both of readout group 1: a source the
\* Partition record places in group 1 ends up with eventCode 40.
C8_FirstCodeWins ==
    \A x \in {SrcA, SrcB} :
        (/\ Built /\ Len(snap.parts) = 1 /\ <<x, 1>> \in PartMap(snap)
         /\ snap.evr.ioc /\ snap.evr.cfg
         /\ snap.evr.eventcodes = <<EvCode(40, 1, TRUE), EvCode(140, 1, TRUE)>>) =>
            /\ graph.exc = "none"
            /\ x \in DOMAIN graph._sources
            /\ graph._sources[x].eventCode = <<40>>

\* the channel wirings of snap that cannot be applied: a channel that names a
\* source outside _sources, a channel whose connector has no output map, an
\* output map whose pulse does not exist
BadWiring(s) ==
    \/ \E i \in 1..Len(s.evr.channels) :
          \/ \E j \in 1..Len(s.evr.channels[i].infos) :
                <<s.evr.channels[i].infos[j], 0>> \notin PartMap(s)
                /\ <<s.evr.channels[i].infos[j], 1>> \notin PartMap(s)
          \/ \A k \in 1..Len(s.evr.output_maps) :
                s.evr.output_maps[k].map_key # s.evr.channels[i].map_key
    \/ \E k \in 1..Len(s.evr.output_maps) :
          /\ s.evr.output_maps[k].source = "Pulse"
          /\ s.evr.output_maps[k].source_id >= Len(s.evr.pulses)

\* C18: a channel wiring that cannot be applied is skipped: with one Partition
\* record, no alias record and EvrData IOConfig and Config records,
\* ConfigData(ds) completes and returns the object.
C18_BadWiringSkipped ==
    (/\ Built /\ Len(snap.parts) = 1 /\ snap.aliases = <<>>
     /\ snap.evr.ioc /\ snap.evr.cfg /\ BadWiring(snap)) =>
        graph.exc = "none" /\ ~graph.returned

\* ConfigData(ds) ran to its end and the object was returned
Complete == Built /\ graph.exc = "none" /\ ~graph.returned

\* the places of source x in the source list of readout group g
Places(g, x) ==
    {i \in 1..Len(graph._readoutGroup[g].srcs) : graph._readoutGroup[g].srcs[i] = x}

\* C21: in every graph ConfigData(ds) builds, a source of _sources with a
\* group is listed exactly once in the source list of the readout group with
\* that id, and in the list of no other group.
C21_SourcesInOwnGroup ==
    Complete =>
        \A x \in DOMAIN graph._sources :
            graph._sources[x].group # <<>> =>
                /\ graph._sources[x].group[1] \in DOMAIN graph._readoutGroup
                /\ \A g \in DOMAIN graph._readoutGroup :
                      Cardinality(Places(g, x)) =
                          (IF g = graph._sources[x].group[1] THEN 1 ELSE 0)

\* C22: in every graph ConfigData(ds) builds, no two sources of _sources have
\* the same alias, and _aliases maps exactly one alias to each source of
\* _sources.
C22_AliasesUnique ==
    Complete =>
        /\ \A x, y \in DOMAIN graph._sources :
              x # y => graph._sources[x].alias # graph._sources[y].alias
        /\ \A x \in DOMAIN graph._sources :
              Cardinality({al \in DOMAIN graph._aliases : graph._aliases[al] = x}) = 1

\* the alias records of snap that name source x
RecordsOf(x) == {i \in 1..Len(snap.aliases) : snap.aliases[i].src = x}

\* the sanitized alias names the alias records give source x
RecordAliases(x) == {Sanitize(snap.aliases[i].alias) : i \in RecordsOf(x)}

\* the sources the Partition record declares
Declared == {pm[1] : pm \in PartMap(snap)}

\* C23: one Partition record: a source with an alias record that the
\* Partition record declares carries the alias of the record and the group
\* the Partition record gives it; a source with alias records that it does not
\* declare is in the graph exactly when a record of it comes from an address
\* other than the partition's or the session is shared memory, and then with
\* group -2 in a shared-memory session and -1 otherwise.
C23_AliasBinding ==
    (Complete /\ Len(snap.parts) = 1) =>
        \A i \in 1..Len(snap.aliases) :
            LET x == snap.aliases[i].src
            IN  IF x \in Declared
                THEN /\ graph._partition[x].alias \in RecordAliases(x)
                     /\ <<x, graph._partition[x].group[1]>> \in PartMap(snap)
                ELSE /\ x \in DOMAIN graph._sources <=>
                           \/ snap.monshmserver
                           \/ \E j \in RecordsOf(x) : snap.aliases[j].ip # snap.parts[1].ip
                     /\ x \in DOMAIN graph._sources =>
                           /\ graph._sources[x].alias \in RecordAliases(x)
                           /\ graph._sources[x].group =
                                  (IF snap.monshmserver THEN <<0 - 2>> ELSE <<0 - 1>>)

\* a recorded session admits DetInfo(x), named by an alias record from another
\* address, with group -1 and the sanitized alias of the record
C23_Witness ==
    /\ Complete /\ Len(snap.parts) = 1 /\ ~snap.monshmserver
    /\ Len(snap.aliases) = 1 /\ snap.aliases[1].src = SrcX
    /\ snap.aliases[1].ip = "ipOther"
    /\ SrcX \in DOMAIN graph._sources
    /\ graph._sources[SrcX].group = <<0 - 1>>
    /\ graph._sources[SrcX].alias = <<"x", "_", "y">>

\* C24: in every graph ConfigData(ds) builds, no source whose string contains
\* "NoDetector" or "NoDevice" is in _sources.
C24_NoMarkedSource ==
    Complete => \A x \in DOMAIN graph._sources : ~Marked(x)

----------------------------------------------------------------------------
(* Properties of the scan aggregator (checked under SpecScan)              *)

\* every step reports the same number of control and of monitor variables
SameCounts ==
    \A i, j \in 1..Len(control) :
        /\ control[i].npvControls = control[j].npvControls
        /\ control[i].npvMonitors = control[j].npvMonitors

\* one of the three uses_ flags is set in every step
UsesOne ==
    \E attr \in {"uses_duration", "uses_events", "uses_l3t_events"} :
        \A i \in 1..Len(control) : control[i][attr]

\* C25 as stated: the scan is simple exactly when the numbers of control and
\* of monitor variables are the same in every step.
C25_SimpleIffSameCounts ==
    scan.built => (scan._is_simple = "True" <=> SameCounts)

\* C25: the scan is simple exactly when the numbers of control and of monitor
\* variables are the same in every step and one of uses_duration, uses_events
\* and uses_l3t_events is set in every step.
C25_SimpleIffSameCountsAndUses ==
    scan.built => (scan._is_simple = "True" <=> (SameCounts /\ UsesOne))

\* two steps with one control variable each, both counting events: simple
C25_Witness ==
    /\ scan.built /\ scan._is_simple = "True"
    /\ Len(control) = 2 /\ control[1].npvControls = 1 /\ control[2].npvControls = 1
    /\ control[1].uses_events /\ control[2].uses_events
    /\ ~control[1].uses_duration

====
